---- MODULE Spec2Model ----
(***************************************************************************)
(* Avatar MVP: the job record in DynamoDB, the objects in the S3 bucket,   *)
(* the Bedrock Nova Reel asynchronous invocation, and the Lambda handlers  *)
(* create_job.handler, check_nova_status_handler and mux_handler.  Each    *)
(* Lambda invocation is a process whose steps are separated at its calls   *)
(* to DynamoDB, Bedrock and S3, so that invocations of the same job may    *)
(* overlap.                                                                *)
(***************************************************************************)
EXTENDS Integers, Sequences, FiniteSets, TLC

\* ------------------------------------------------------------------ bounds
\* Job ids (uuid4 values) the model draws from.
Jobs == {"j1", "j2"}
\* Lambda invocations that may be in flight at the same time.
NumProcs == 2
\* Merges (mux_audio_and_video run to its end) of one job the model follows.
MaxMerges == 3
\* Listings without an .mp4 the model counts for one job.
MaxMisses == 2

Procs == 1..NumProcs

\* Python's None, and a missing dict key.
None == "None"

\* ------------------------------------------------------------ configuration
BUCKET_NAME == "bucket"
FINAL_PREFIX == "renders/final/"

\* ------------------------------------------------------------------ S3 keys
\* A key is a sequence of strings: the fixed pieces of the f-string that
\* builds it, then the characters of the file name.
AudioKey(job_id) == <<"renders/audio/", job_id, ".", "m", "p", "3">>

\* f"s3://{BUCKET_NAME}/renders/raw-video/{job_id}/"
OutputUri(job_id) == <<"s3://", BUCKET_NAME, "/", "renders/raw-video/", job_id, "/">>

\* The file names Nova Reel may write under the output prefix.
OutputNames ==
    { <<"m", ".", "j", "s", "o", "n">>,
      <<"o", ".", "m", "p", "4">>,
      <<"A", ".", "M", "P", "4">> }

\* The key of an object Nova Reel writes for the job.
RawKey(job_id, name) == <<"renders/raw-video/", job_id, "/">> \o name

\* The keys of all objects Nova Reel may write.
RawKeys == {RawKey(j, name) : j \in Jobs, name \in OutputNames}

\* str.lower() on one piece of a key.
Lower(c) ==
    CASE c = "A" -> "a"
      [] c = "M" -> "m"
      [] c = "P" -> "p"
      [] OTHER -> c

LowerSeq(s) == [i \in 1..Len(s) |-> Lower(s[i])]

\* str.endswith
EndsWith(s, suffix) ==
    /\ Len(s) >= Len(suffix)
    /\ SubSeq(s, Len(s) - Len(suffix) + 1, Len(s)) = suffix

\* str.startswith, used for the Prefix= of list_objects_v2
StartsWith(s, prefix) ==
    /\ Len(s) >= Len(prefix)
    /\ SubSeq(s, 1, Len(prefix)) = prefix

\* The byte value that orders the pieces of a key in an S3 listing.
Code(c) ==
    CASE c = "." -> 46
      [] c = "3" -> 51
      [] c = "4" -> 52
      [] c = "A" -> 65
      [] c = "M" -> 77
      [] c = "P" -> 80
      [] c = "j" -> 106
      [] c = "m" -> 109
      [] c = "n" -> 110
      [] c = "o" -> 111
      [] c = "p" -> 112
      [] c = "s" -> 115
      [] OTHER -> 0

\* a < b in the order of an S3 listing, for two keys under the same prefix.
RECURSIVE KeyLess(_, _)
KeyLess(a, b) ==
    IF a = <<>> THEN b # <<>>
    ELSE IF b = <<>> THEN FALSE
    ELSE IF Head(a) = Head(b) THEN KeyLess(Tail(a), Tail(b))
    ELSE Code(Head(a)) < Code(Head(b))

\* list_objects_v2(Bucket, Prefix): the keys with the prefix, in key order.
RECURSIVE SortKeys(_)
SortKeys(S) ==
    IF S = {} THEN <<>>
    ELSE LET k == CHOOSE x \in S : \A y \in S \ {x} : KeyLess(x, y)
         IN  <<k>> \o SortKeys(S \ {k})

ListObjects(objs, prefix) == SortKeys({k \in objs : StartsWith(k, prefix)})

\* ------------------------------------------------------------- DynamoDB
\* item.get(attr, {}).get("S"), with the default for a missing attribute.
ItemGet(item, attr, default) == IF attr \in DOMAIN item THEN item[attr] ELSE default

\* ddb.put_item: the item replaces whatever the key held.
PutItem(tbl, job_id, item) == (job_id :> item) @@ tbl

\* The update sets the named attributes in every item of the table.
UpdateItemAll(tbl, job_id, sets) ==
    [j \in DOMAIN tbl \cup {job_id} |->
       sets @@ (IF j \in DOMAIN tbl THEN tbl[j] ELSE [jobId |-> j])]

\* The update puts a new item that holds the key and the named attributes only.
UpdateItemReplace(tbl, job_id, sets) == (job_id :> (sets @@ [jobId |-> job_id])) @@ tbl

\* ddb.update_item with UpdateExpression "SET ..." and no ConditionExpression:
\* the named attributes are set, the others kept; a missing item is created.
UpdateItem(tbl, job_id, sets) ==
    LET old == IF job_id \in DOMAIN tbl THEN tbl[job_id] ELSE [jobId |-> job_id]
    IN  (job_id :> (sets @@ old)) @@ tbl

\* response.get("Item") of a get_item for a key the table does not hold: falsy.
NoItem == [a \in {} |-> a]

\* The read answers with the key alone when the table has no such item.
GetItemKeyOnly(tbl, job_id) ==
    IF job_id \in DOMAIN tbl THEN tbl[job_id] ELSE [jobId |-> job_id]

\* ddb.get_item(...).get("Item")
GetItem(tbl, job_id) == IF job_id \in DOMAIN tbl THEN tbl[job_id] ELSE NoItem

\* A missing or empty S3 key: both are falsy in the handlers' tests.
NoKey == <<>>

\* ------------------------------------------------------------- Bedrock
\* response["invocationArn"] of start_async_invoke for the job's invocation.
InvocationArn(job_id) == <<"arn:aws:bedrock:async-invoke/", job_id>>

\* The job whose invocation an ARN names.
ArnJob(arn) == arn[2]

\* Statuses of an asynchronous invocation; the last two are final.
NovaRunning == {"SUBMITTED", "IN_PROGRESS"}
NovaFinal == {"COMPLETED", "FAILED"}

\* ------------------------------------------------------------------ state
VARIABLES
    table,        \* DynamoDB jobs table: jobId -> item (attribute -> value)
    objects,      \* keys of the objects in the S3 bucket
    nova,         \* job -> status of its Nova Reel invocation
    executions,   \* job ids with a Step Functions execution started
    uuids,        \* the ids uuid4 has yet to draw
    created,      \* job ids drawn by uuid4 -> HTTP status create_job returned
    merges,       \* job -> number of merges run to their end for it
    finalWritten, \* job -> finalVideoKey values update_item has written
    seen,         \* job -> the calls check_nova_status has got an answer to
                  \*        for it: "get_item", and "COMPLETED" from Bedrock;
                  \*        "crash after upload" once an invocation was ended
                  \*        between its upload and its update_item
    sfn,          \* job -> the state its Step Functions execution is in
    misses,       \* job -> check_nova_status calls that listed objects but no .mp4
    inv           \* Lambda invocation slot -> its local state

vars == <<table, objects, nova, executions, uuids, created, merges,
          finalWritten, seen, sfn, misses, inv>>

\* An invocation slot with no invocation running.
Idle ==
    [pc |-> "idle", fn |-> None, job_id |-> None, invocation_arn |-> NoKey,
     audio_key |-> NoKey, read_status |-> None, s3_uri |-> NoKey,
     video_key |-> NoKey, final_key |-> NoKey, merged |-> FALSE,
     wrote |-> FALSE, line |-> 0, result |-> [status |-> None]]

Init ==
    /\ table = <<>>
    /\ objects = {}
    /\ nova = [j \in Jobs |-> "NotStarted"]
    /\ executions = {}
    /\ uuids = {"j1"}
    /\ created = <<>>
    /\ merges = [j \in Jobs |-> 0]
    /\ finalWritten = [j \in Jobs |-> {}]
    /\ seen = [j \in Jobs |-> {}]
    /\ sfn = [j \in Jobs |-> "NotStarted"]
    /\ misses = [j \in Jobs |-> 0]
    /\ inv = [p \in Procs |-> Idle]

\* A Lambda answers its caller as the last thing it does: a finished
\* invocation shows its result in its slot for one state, then frees the slot.
NoneReturning == \A p \in Procs : inv[p].pc # "done"

\* The job ids an event may carry: those create_job has issued or may issue.
EventJobs == uuids \cup DOMAIN created

\* The invocation returns `result` from the return statement at `line`.
Returned(local, line, result) ==
    [Idle EXCEPT !.pc = "done", !.fn = local.fn, !.job_id = local.job_id,
                 !.merged = local.merged,
                 !.wrote = local.wrote, !.line = line, !.result = result]

\* --------------------------------------------------------------- create_job
DEFAULT_DURATION == 18

\* A request body with every key present and valid.
FullBody ==
    [userId |-> "u1", script |-> "hello", avatarKey |-> "uploads/u1/avatar.png",
     durationSeconds |-> 18, voiceMode |-> "polly", gestureMode |-> "subtle"]

\* The body without the keys in K.
Without(body, K) == [k \in DOMAIN body \ K |-> body[k]]

\* Request bodies the model draws from.
Bodies ==
    { FullBody,
      Without(FullBody, {"durationSeconds", "voiceMode", "gestureMode"}),
      Without(FullBody, {"script"}),
      Without(FullBody, {"avatarKey"}),
      [FullBody EXCEPT !.script = ""],
      [FullBody EXCEPT !.voiceMode = "cloned"],
      [FullBody EXCEPT !.voiceMode = "robot"],
      [FullBody EXCEPT !.gestureMode = "expressive"],
      [FullBody EXCEPT !.gestureMode = "dance"],
      [FullBody EXCEPT !.durationSeconds = 4],
      [FullBody EXCEPT !.durationSeconds = 5],
      [FullBody EXCEPT !.durationSeconds = 120],
      [FullBody EXCEPT !.durationSeconds = 121] }

\* body.get(key, default)
BodyGet(body, key, default) == IF key \in DOMAIN body THEN body[key] ELSE default

\* No request is rejected.
AcceptEveryRequest(body) == DOMAIN body \subseteq DOMAIN FullBody

\* validate_request: TRUE when it raises no ValueError.
validate_request(body) ==
    /\ BodyGet(body, "script", "") # ""
    /\ BodyGet(body, "avatarKey", "") # ""
    /\ BodyGet(body, "voiceMode", "polly") \in {"polly", "cloned"}
    /\ BodyGet(body, "gestureMode", "subtle") \in {"subtle", "expressive"}
    /\ LET duration == BodyGet(body, "durationSeconds", DEFAULT_DURATION)
       IN  ~(duration < 5 \/ duration > 120)

\* The item is put with the job's output prefix as its novaVideoKey.
JobItemWithRaw(job_id, body) ==
    [jobId |-> job_id,
     userId |-> BodyGet(body, "userId", "anonymous"),
     status |-> "PENDING",
     audioKey |-> AudioKey(job_id),
     novaInvocationArn |-> InvocationArn(job_id),
     novaVideoKey |-> RawKey(job_id, << >>)]

\* The item store_job_metadata puts.
JobItem(job_id, body) ==
    [jobId |-> job_id,
     userId |-> BodyGet(body, "userId", "anonymous"),
     status |-> "PENDING",
     audioKey |-> AudioKey(job_id),
     novaInvocationArn |-> InvocationArn(job_id)]

\* The record is stored before the audio is generated.
CreateStepsStoreFirst ==
    <<"store_job_metadata", "generate_audio", "upload_to_s3",
      "start_nova_reel_job", "start_step_functions", "return">>

\* The execution is started before the record is stored.
CreateStepsScheduleFirst ==
    <<"generate_audio", "upload_to_s3", "start_nova_reel_job",
      "start_step_functions", "store_job_metadata", "return">>

\* The step of the handler at which a call fails, in the handler's order.
CreateSteps == <<"generate_audio", "upload_to_s3", "start_nova_reel_job",
                 "store_job_metadata", "start_step_functions", "return">>

StepIndex(step) == CHOOSE i \in 1..Len(CreateSteps) : CreateSteps[i] = step

\* handler: the whole request, in one invocation.  `stop` is the first step
\* that raises, or "return" when none does; the steps before `stop` have taken
\* effect.  A body validate_request rejects is answered 400 before anything
\* else is done; a failing AWS call is answered 500 with the error's text.
CreateJob(p, body) ==
    /\ NoneReturning
    /\ uuids # {}
    /\ inv[p].pc = "idle"
    /\ LET local == [Idle EXCEPT !.fn = "create_job"]
       IN  IF ~validate_request(body)
           THEN /\ inv' = [inv EXCEPT ![p] =
                     Returned(local, 129,
                       [statusCode |-> 400, error |-> "Invalid request"])]
                /\ UNCHANGED <<table, objects, nova, executions, uuids, created,
                               merges, finalWritten, seen, sfn, misses>>
           ELSE \E job_id \in uuids :
                \E stop \in {CreateSteps[i] : i \in 1..Len(CreateSteps)} :
                  LET done(step) == StepIndex(step) < StepIndex(stop)
                  IN  /\ uuids' = uuids \ {job_id}
                      /\ created' = (job_id :> (IF stop = "return" THEN 200 ELSE 500)) @@ created
                      /\ objects' = IF done("upload_to_s3")
                                    THEN objects \cup {AudioKey(job_id)} ELSE objects
                      /\ nova' = IF done("start_nova_reel_job")
                                 THEN [nova EXCEPT ![job_id] = "SUBMITTED"] ELSE nova
                      /\ table' = IF done("store_job_metadata")
                                  THEN PutItem(table, job_id, JobItem(job_id, body)) ELSE table
                      /\ executions' = IF done("start_step_functions")
                                       THEN executions \cup {job_id} ELSE executions
                      /\ inv' = [inv EXCEPT ![p] =
                           IF stop = "return"
                           THEN Returned([local EXCEPT !.job_id = job_id], 125,
                                  [statusCode |-> 200, jobId |-> job_id])
                           ELSE Returned([local EXCEPT !.job_id = job_id], 132,
                                  [statusCode |-> 500, error |-> "AWS service error",
                                   details |-> stop])]
                      /\ sfn' = IF done("start_step_functions")
                                THEN [sfn EXCEPT ![job_id] = "WaitForVideo"] ELSE sfn
                      /\ UNCHANGED <<merges, finalWritten, seen, misses>>

\* ------------------------------------------------------------ environment
\* The Nova Reel invocation advances; a final status never changes.
NovaAdvance(j) ==
    /\ NoneReturning
    /\ \/ nova[j] = "SUBMITTED" /\ nova' = [nova EXCEPT ![j] = "IN_PROGRESS"]
       \/ nova[j] = "IN_PROGRESS" /\ \E s \in NovaFinal : nova' = [nova EXCEPT ![j] = s]
    /\ UNCHANGED <<table, objects, executions, uuids, created, merges,
                   finalWritten, seen, sfn, misses, inv>>

\* Nova Reel's output becomes visible under the job's output prefix; this may
\* happen after the invocation reports COMPLETED.
NovaWrite(j, name) ==
    /\ NoneReturning
    /\ nova[j] = "COMPLETED"
    /\ RawKey(j, name) \notin objects
    /\ objects' = objects \cup {RawKey(j, name)}
    /\ UNCHANGED <<table, nova, executions, uuids, created, merges,
                   finalWritten, seen, sfn, misses, inv>>

\* ------------------------------------------------------- check_nova_status
\* generate_presigned_url("get_object", Bucket, Key)
generate_presigned_url(bucket, key) == <<"https://", bucket, "/">> \o key

\* What bedrock.get_async_invoke can do for an invocation in state `st`:
\* raise a ClientError (an error response of the service), raise another
\* exception (no response: connection failure, timeout), or answer.  An answer
\* carries the status (or none while the invocation is being set up) and the
\* output location (which the handler allows to be missing).
GetAsyncInvoke(st, arn) ==
    {[raises |-> e, status |-> None, s3Uri |-> NoKey] :
        e \in {"ClientError", "EndpointConnectionError"}}
    \cup
    {[raises |-> None, status |-> s, s3Uri |-> u] :
        s \in (IF st \in NovaRunning THEN {st, None}
               ELSE IF st \in NovaFinal THEN {st} ELSE {}),
        u \in (IF st = "COMPLETED" THEN {OutputUri(ArnJob(arn)), NoKey}
               ELSE {OutputUri(ArnJob(arn))})}

\* The suffix test accepts every key.
IsMp4AnyKey(key) == Len(key) >= 0

\* key.lower().endswith(".mp4")
IsMp4(key) == EndsWith(LowerSeq(key), <<".", "m", "p", "4">>)

\* find_video_file: (bucket, key) of the first .mp4 object listed under the
\* prefix of s3://bucket/prefix, (bucket, None) when the listing is empty or
\* holds none.
find_video_file(objs, s3_uri) ==
    LET bucket == s3_uri[2]
        prefix == SubSeq(s3_uri, 4, Len(s3_uri))
        \* the answer for a listing, which is evaluated once
        first(contents) ==
            LET hits == {i \in 1..Len(contents) : IsMp4(contents[i])}
            IN  IF contents = <<>> \/ hits = {}
                THEN [bucket |-> bucket, key |-> NoKey]
                ELSE [bucket |-> bucket,
                      key |-> contents[CHOOSE i \in hits : \A k \in hits : i <= k]]
    IN  CHOOSE found \in
          {first(contents) :
             contents \in {IF bucket = BUCKET_NAME
                           THEN ListObjects(objs, prefix) ELSE <<>>}} : TRUE

\* The merged video is named after the raw video instead of the job.
MuxFinalKeyByVideo(job_id, video_key) ==
    <<FINAL_PREFIX>> \o SubSeq(video_key, 4, Len(video_key))

\* mux_audio_and_video, line 219: the key of the merged video.
MuxFinalKey(job_id, video_key) == <<FINAL_PREFIX, job_id, ".", "m", "p", "4">>

\* The short-circuit looks up an attribute no writer sets.
ExistingFinalWrongAttr(item) == ItemGet(item, "finalKey", NoKey)

\* Lines 77-79: the final video key the item already holds, if any.
ExistingFinal(item) == ItemGet(item, "finalVideoKey", NoKey)

\* Lines 50-87: read the item; answer at once when the job is unknown, has no
\* audio, or already has a final video.
CheckStart(p, job_id) ==
    /\ NoneReturning
    /\ job_id \in EventJobs
    /\ inv[p].pc = "idle"
    /\ LET local == [Idle EXCEPT !.fn = "check_nova_status", !.job_id = job_id]
           item == GetItem(table, job_id)
           audio_key == ItemGet(item, "audioKey", NoKey)
           existing_final == ExistingFinal(item)
       IN  inv' = [inv EXCEPT ![p] =
             IF DOMAIN item = {}
             THEN Returned(local, 68,
                    [jobId |-> job_id, status |-> "FAILED", reason |-> "JobNotFound"])
             ELSE IF "novaInvocationArn" \notin DOMAIN item
             THEN Returned(local, 174,
                    [jobId |-> job_id, status |-> "FAILED", error |-> "KeyError"])
             ELSE IF audio_key = NoKey
             THEN Returned(local, 75,
                    [jobId |-> job_id, status |-> "FAILED", reason |-> "AudioMissing"])
             ELSE IF existing_final # NoKey
             THEN Returned(local, 82,
                    [jobId |-> job_id, status |-> "READY",
                     novaVideoKey |-> existing_final,
                     downloadUrl |-> generate_presigned_url(BUCKET_NAME, existing_final)])
             ELSE [local EXCEPT !.pc = "get_async_invoke",
                                !.invocation_arn = item["novaInvocationArn"],
                                !.audio_key = audio_key,
                                !.read_status = ItemGet(item, "status", None)]]
    /\ seen' = [seen EXCEPT ![job_id] = @ \cup {"get_item"}]
    /\ UNCHANGED <<table, objects, nova, executions, uuids, created, merges, finalWritten,
                   sfn, misses>>

\* Lines 89-121: query Bedrock and branch on the status.
CheckPoll(p) ==
    /\ NoneReturning
    /\ inv[p].pc = "get_async_invoke"
    /\ \E r \in GetAsyncInvoke(nova[ArnJob(inv[p].invocation_arn)], inv[p].invocation_arn) :
         LET local == inv[p]
             job_id == local.job_id
         IN  /\ inv' = [inv EXCEPT ![p] =
               IF r.raises = "ClientError"
               THEN Returned(local, 95, [jobId |-> job_id, status |-> "PENDING"])
               ELSE IF r.raises # None
               THEN Returned(local, 174,
                      [jobId |-> job_id, status |-> "FAILED", error |-> r.raises])
               ELSE IF r.status \in {"IN_PROGRESS", "SUBMITTED", None}
               THEN Returned(local, 102, [jobId |-> job_id, status |-> "PENDING"])
               ELSE IF r.status = "FAILED"
               THEN [local EXCEPT !.pc = "update_failed"]
               ELSE IF r.s3Uri = NoKey
               THEN Returned(local, 121, [jobId |-> job_id, status |-> "FAILED"])
               ELSE [local EXCEPT !.pc = "find_video_file", !.s3_uri = r.s3Uri]]
             /\ seen' = IF r.raises = None /\ r.status = "COMPLETED"
                        THEN [seen EXCEPT ![job_id] = @ \cup {"COMPLETED"}]
                        ELSE seen
    /\ UNCHANGED <<table, objects, nova, executions, uuids, created, merges,
                   finalWritten, sfn, misses>>

\* Lines 104-113: the Bedrock status is FAILED.
CheckUpdateFailed(p) ==
    /\ NoneReturning
    /\ inv[p].pc = "update_failed"
    /\ table' = UpdateItem(table, inv[p].job_id, [status |-> "FAILED"])
    /\ inv' = [inv EXCEPT ![p] =
         Returned([inv[p] EXCEPT !.wrote = TRUE], 113,
                  [jobId |-> inv[p].job_id, status |-> "FAILED"])]
    /\ UNCHANGED <<objects, nova, executions, uuids, created, merges, finalWritten, seen, sfn, misses>>

\* Lines 123-131: look for the raw video.
CheckFind(p) ==
    /\ NoneReturning
    /\ inv[p].pc = "find_video_file"
    /\ LET found == find_video_file(objects, inv[p].s3_uri)
       IN  inv' = [inv EXCEPT ![p] =
             IF found.key = NoKey
             THEN Returned(inv[p], 131, [jobId |-> inv[p].job_id, status |-> "PENDING"])
             ELSE [inv[p] EXCEPT !.pc = "mux_audio_and_video", !.video_key = found.key]]
    /\ LET job_id == inv[p].job_id
           listed == ListObjects(objects, SubSeq(inv[p].s3_uri, 4, Len(inv[p].s3_uri)))
       IN  misses' = IF find_video_file(objects, inv[p].s3_uri).key = NoKey
                        /\ listed # << >> /\ misses[job_id] < MaxMisses
                     THEN [misses EXCEPT ![job_id] = @ + 1]
                     ELSE misses
    /\ UNCHANGED <<table, objects, nova, executions, uuids, created, merges,
                   finalWritten, seen, sfn>>

\* The calls of a merge, in order; `stop` is the first that raises.
MuxSteps == <<"download_file", "ffmpeg", "upload_file", "return">>

MuxIndex(step) == CHOOSE i \in 1..Len(MuxSteps) : MuxSteps[i] = step

\* Lines 138-145 and 213-259: download both inputs, run ffmpeg, upload the
\* result.  A download of a key the bucket does not hold raises.
CheckMux(p) ==
    /\ NoneReturning
    /\ inv[p].pc = "mux_audio_and_video"
    /\ merges[inv[p].job_id] < MaxMerges
    /\ \E stop \in {MuxSteps[i] : i \in 1..Len(MuxSteps)} :
         LET local == inv[p]
             job_id == local.job_id
             final_key == MuxFinalKey(job_id, local.video_key)
             ran == MuxIndex("ffmpeg") <= MuxIndex(stop)
         IN  /\ {local.video_key, local.audio_key} \subseteq objects
                  \/ stop = "download_file"
             /\ merges' = IF stop = "return" THEN [merges EXCEPT ![job_id] = @ + 1]
                          ELSE merges
             /\ objects' = IF stop = "return" THEN objects \cup {final_key} ELSE objects
             /\ inv' = [inv EXCEPT ![p] =
                  IF stop = "return"
                  THEN [local EXCEPT !.pc = "update_ready", !.final_key = final_key,
                                     !.merged = TRUE]
                  ELSE Returned([local EXCEPT !.merged = ran], 174,
                         [jobId |-> job_id, status |-> "FAILED", error |-> stop])]
    /\ UNCHANGED <<table, nova, executions, uuids, created, finalWritten, seen, sfn, misses>>

\* Lines 147-170: record the keys and READY, answer READY.
CheckUpdateReady(p) ==
    /\ NoneReturning
    /\ inv[p].pc = "update_ready"
    /\ LET local == inv[p]
           job_id == local.job_id
       IN  /\ table' = UpdateItem(table, job_id,
                         [status |-> "READY", novaVideoKey |-> local.video_key,
                          finalVideoKey |-> local.final_key])
           /\ finalWritten' = [finalWritten EXCEPT ![job_id] = @ \cup {local.final_key}]
           /\ inv' = [inv EXCEPT ![p] =
                Returned([local EXCEPT !.wrote = TRUE], 165,
                  [jobId |-> job_id, status |-> "READY",
                   novaVideoKey |-> local.final_key,
                   downloadUrl |-> generate_presigned_url(BUCKET_NAME, local.final_key)])]
    /\ UNCHANGED <<objects, nova, executions, uuids, created, merges, seen, sfn, misses>>

\* The caller has the result; the slot is free for the next invocation.
Return(p) ==
    /\ inv[p].pc = "done"
    /\ inv' = [inv EXCEPT ![p] = Idle]
    /\ UNCHANGED <<table, objects, nova, executions, uuids, created, merges,
                   finalWritten, seen, sfn, misses>>

\* ----------------------------------------------------------- mux_audio_video
\* The names bound at module level in mux_audio_video.py (lines 27-45).
MuxModuleNames ==
    {"os", "json", "uuid", "subprocess", "logging", "boto3", "ClientError",
     "logger", "s3", "ddb", "BUCKET_NAME", "JOBS_TABLE_NAME", "mux_handler"}

\* Every global name mux_handler uses is bound.
MuxNameDefinedAll(name) == name \in MuxModuleNames \cup {"FINAL_PREFIX"}

\* Whether evaluating a global name in mux_handler finds it (else NameError).
MuxNameDefined(name) == name \in MuxModuleNames

\* The novaVideoKey values an event may carry for a job: none, or the key of
\* an object under the job's output prefix.
MuxEventKeys(job_id) ==
    {NoKey} \cup {k \in objects : StartsWith(k, RawKey(job_id, <<>>))}

\* mux_handler, lines 45-140: check the event, read the item, download both
\* inputs, run ffmpeg, build the final key from FINAL_PREFIX, upload, record
\* COMPLETED with the key and answer COMPLETED.  `stop` is the first call
\* that raises; the handler re-raises every exception, so the invocation then
\* ends in an error.
MuxHandler(p, job_id, nova_video_key) ==
    /\ NoneReturning
    /\ job_id \in EventJobs
    /\ nova_video_key \in MuxEventKeys(job_id)
    /\ inv[p].pc = "idle"
    /\ merges[job_id] < MaxMerges
    /\ \E stop \in {MuxSteps[i] : i \in 1..Len(MuxSteps)} :
         LET local == [Idle EXCEPT !.fn = "mux_handler", !.job_id = job_id]
             item == table[job_id]
             rejected == nova_video_key = NoKey \/ job_id \notin DOMAIN table
             final_key == <<FINAL_PREFIX, job_id, ".", "m", "p", "4">>
             ran == IF rejected THEN FALSE
                    ELSE "audioKey" \in DOMAIN item
                           /\ MuxIndex("ffmpeg") <= MuxIndex(stop)
             named == MuxNameDefined("FINAL_PREFIX")
             uploaded == ran /\ named /\ MuxIndex("upload_file") < MuxIndex(stop)
         IN  /\ IF rejected THEN TRUE
                ELSE IF "audioKey" \notin DOMAIN item THEN TRUE
                ELSE IF stop = "download_file" THEN TRUE
                ELSE {nova_video_key, item["audioKey"]} \subseteq objects
             /\ merges' = IF uploaded THEN [merges EXCEPT ![job_id] = @ + 1]
                          ELSE merges
             /\ objects' = IF uploaded THEN objects \cup {final_key} ELSE objects
             /\ table' = IF uploaded
                         THEN UpdateItem(table, job_id,
                                [status |-> "COMPLETED", finalVideoKey |-> final_key])
                         ELSE table
             /\ finalWritten' = IF uploaded
                                THEN [finalWritten EXCEPT ![job_id] = @ \cup {final_key}]
                                ELSE finalWritten
             /\ inv' = [inv EXCEPT ![p] =
                  IF rejected
                  THEN Returned(local, 140, [errorType |-> "ValueError"])
                  ELSE IF "audioKey" \notin DOMAIN item
                  THEN Returned(local, 140, [errorType |-> "KeyError"])
                  ELSE IF stop = "download_file"
                  THEN Returned(local, 137, [errorType |-> "ClientError"])
                  ELSE IF stop = "ffmpeg"
                  THEN Returned([local EXCEPT !.merged = TRUE], 134,
                                [errorType |-> "RuntimeError"])
                  ELSE IF ~named
                  THEN Returned([local EXCEPT !.merged = TRUE], 140,
                                [errorType |-> "NameError"])
                  ELSE IF stop = "upload_file"
                  THEN Returned([local EXCEPT !.merged = TRUE], 137,
                                [errorType |-> "ClientError"])
                  ELSE Returned([local EXCEPT !.merged = TRUE, !.wrote = TRUE], 126,
                         [jobId |-> job_id, status |-> "COMPLETED",
                          finalVideoKey |-> final_key])]
    /\ UNCHANGED <<nova, executions, uuids, created, seen, sfn, misses>>

\* ------------------------------------------------------------------ get_job
\* Lines 1-23 of get_job.py, by kind: "#" a comment, "" a blank line, "text" a
\* line of prose, "quotes" a line that is a triple quote.  The prose of lines
\* 5-22 is closed by the triple quote of line 23 and opened by none.  The
\* triple quotes of lines 24-115 come in pairs on one line (42, 105).
GetJobHead ==
    <<"#", "#", "#", "", "text", "", "text", "", "text", "", "text", "text",
      "text", "text", "text", "", "text", "text", "text", "text", "text",
      "text", "quotes">>

\* Whether Python compiles lines i.. of a module head: prose is accepted
\* only inside a string, and a string that is opened has to be closed.
RECURSIVE Compiles(_, _, _)
Compiles(lines, i, in_string) ==
    IF i > Len(lines) THEN ~in_string
    ELSE IF lines[i] = "quotes" THEN Compiles(lines, i + 1, ~in_string)
    ELSE IF lines[i] = "text" /\ ~in_string THEN FALSE
    ELSE Compiles(lines, i + 1, in_string)

\* Lines 64-69: the status the frontend is shown for a stored status.
UiStatus(raw_status) == IF raw_status = "READY" THEN "COMPLETED" ELSE raw_status

\* get_job_handler, lines 41-93: the response for a jobId path parameter
\* ("" when the path has none), given the table.
get_job_handler(tbl, job_id) ==
    IF job_id = ""
    THEN [line |-> 49, response |-> [statusCode |-> 400, error |-> "Missing jobId in path"]]
    ELSE IF job_id \notin DOMAIN tbl
    THEN [line |-> 59, response |-> [statusCode |-> 404, error |-> "Job not found"]]
    ELSE LET item == tbl[job_id]
             ui_status == UiStatus(ItemGet(item, "status", "UNKNOWN"))
             final_key == ItemGet(item, "finalVideoKey", NoKey)
             nova_key == ItemGet(item, "novaVideoKey", NoKey)
             video_key == IF final_key # NoKey THEN final_key ELSE nova_key
             result == [statusCode |-> 200, jobId |-> job_id, status |-> ui_status,
                        userId |-> ItemGet(item, "userId", "unknown")]
         IN  [line |-> 93,
              response |->
                IF ui_status = "COMPLETED" /\ video_key # NoKey
                THEN [videoUrl |-> generate_presigned_url(BUCKET_NAME, video_key)] @@ result
                ELSE result]

\* One GET /jobs/{jobId}.  The Lambda runtime imports get_job.py before it
\* calls the handler; a module that does not compile ends the invocation with
\* the runtime's error, and the handler is not run.
GetJob(p, job_id) ==
    /\ NoneReturning
    /\ job_id \in EventJobs \cup {""}
    /\ inv[p].pc = "idle"
    /\ LET local == [Idle EXCEPT !.fn = "get_job", !.job_id = job_id]
           answer == get_job_handler(table, job_id)
       IN  inv' = [inv EXCEPT ![p] =
             IF ~Compiles(GetJobHead, 1, FALSE)
             THEN Returned(local, 5, [errorType |-> "Runtime.UserCodeSyntaxError"])
             ELSE Returned(local, answer.line, answer.response)]
    /\ UNCHANGED <<table, objects, nova, executions, uuids, created, merges,
                   finalWritten, seen, sfn, misses>>

\* ------------------------------------------------------------ specification
Next ==
    \/ \E p \in Procs, body \in Bodies : CreateJob(p, body)
    \/ \E j \in Jobs : NovaAdvance(j)
    \/ \E j \in Jobs, name \in OutputNames : NovaWrite(j, name)
    \/ \E p \in Procs, j \in Jobs : CheckStart(p, j)
    \/ \E p \in Procs : CheckPoll(p)
    \/ \E p \in Procs : CheckUpdateFailed(p)
    \/ \E p \in Procs : CheckFind(p)
    \/ \E p \in Procs : CheckMux(p)
    \/ \E p \in Procs : CheckUpdateReady(p)
    \/ \E p \in Procs, j \in Jobs, k \in RawKeys \cup {NoKey} : MuxHandler(p, j, k)
    \/ \E p \in Procs, j \in Jobs \cup {""} : GetJob(p, j)
    \/ \E p \in Procs : Return(p)

Spec == Init /\ [][Next]_vars

\* ------------------------------------------------------------ Step Functions
\* States an execution of the state machine runs in, and those it ends in.
SfnRunning == {"WaitForVideo", "CheckNovaStatus"}
SfnEnded == {"JobCompleted", "JobFailed", "TIMED_OUT"}

\* Every result but READY sends the execution back to the wait.
IsDoneRetryAll(status) ==
    IF status = "READY" THEN "JobCompleted" ELSE "WaitForVideo"

\* The Choice state "IsDone?": the state that follows for a $.status.
IsDone(status) ==
    IF status = "PENDING" THEN "WaitForVideo"
    ELSE IF status = "READY" THEN "JobCompleted"
    ELSE "JobFailed"

\* The 30 seconds of WaitForVideo are over: the execution enters the task.
SfnWait(j) ==
    /\ NoneReturning
    /\ sfn[j] = "WaitForVideo"
    /\ sfn' = [sfn EXCEPT ![j] = "CheckNovaStatus"]
    /\ UNCHANGED <<table, objects, nova, executions, uuids, created, merges,
                   finalWritten, seen, misses, inv>>

\* The task CheckNovaStatus invokes the Lambda with the execution's input
\* {"jobId": j}, once, and waits for its result.
SfnTask(p, j) ==
    /\ sfn[j] = "CheckNovaStatus"
    /\ \A q \in Procs : ~(inv[q].fn = "check_nova_status" /\ inv[q].job_id = j)
    /\ CheckStart(p, j)

\* The task has the Lambda's result ($.Payload) and the Choice state acts on
\* its status.
SfnChoice(p) ==
    /\ inv[p].pc = "done"
    /\ inv[p].fn = "check_nova_status"
    /\ sfn[inv[p].job_id] = "CheckNovaStatus"
    /\ sfn' = [sfn EXCEPT ![inv[p].job_id] = IsDone(inv[p].result.status)]
    /\ inv' = [inv EXCEPT ![p] = Idle]
    /\ UNCHANGED <<table, objects, nova, executions, uuids, created, merges,
                   finalWritten, seen, misses>>

\* The state machine's timeout (20 minutes) ends a running execution.  A
\* Lambda in flight is not stopped by it.
SfnTimeout(j) ==
    /\ NoneReturning
    /\ sfn[j] \in SfnRunning
    /\ sfn' = [sfn EXCEPT ![j] = "TIMED_OUT"]
    /\ UNCHANGED <<table, objects, nova, executions, uuids, created, merges,
                   finalWritten, seen, misses, inv>>

\* An invocation no execution waits for has returned to its caller.
ApiReturn(p) ==
    /\ ~(inv[p].fn = "check_nova_status" /\ sfn[inv[p].job_id] = "CheckNovaStatus")
    /\ Return(p)

\* The deployed system: create_job and get_job behind the API, and
\* check_nova_status invoked by the state machine alone.
SchedNext ==
    \/ \E p \in Procs, body \in Bodies : CreateJob(p, body)
    \/ \E j \in Jobs : NovaAdvance(j)
    \/ \E j \in Jobs, name \in OutputNames : NovaWrite(j, name)
    \/ \E j \in Jobs : SfnWait(j)
    \/ \E p \in Procs, j \in Jobs : SfnTask(p, j)
    \/ \E p \in Procs : CheckPoll(p)
    \/ \E p \in Procs : CheckUpdateFailed(p)
    \/ \E p \in Procs : CheckFind(p)
    \/ \E p \in Procs : CheckMux(p)
    \/ \E p \in Procs : CheckUpdateReady(p)
    \/ \E p \in Procs : SfnChoice(p)
    \/ \E j \in Jobs : SfnTimeout(j)
    \/ \E p \in Procs, j \in Jobs \cup {""} : GetJob(p, j)
    \/ \E p \in Procs : ApiReturn(p)

SchedSpec == Init /\ [][SchedNext]_vars

\* The next step of an execution or of the Lambda invocation it waits for.
SfnStep ==
    \/ \E j \in Jobs : SfnWait(j)
    \/ \E p \in Procs, j \in Jobs : SfnTask(p, j)
    \/ \E p \in Procs : CheckPoll(p)
    \/ \E p \in Procs : CheckUpdateFailed(p)
    \/ \E p \in Procs : CheckFind(p)
    \/ \E p \in Procs : CheckMux(p)
    \/ \E p \in Procs : CheckUpdateReady(p)

\* The scheduling of the deployed system: an execution and the Lambda it
\* invokes take their next step, a result is handed to its caller, and a
\* client keeps asking for the status of a job.  Which way a step goes (a
\* call raising or not) is left open.
SchedFairness ==
    /\ SF_vars(SfnStep)
    /\ WF_vars(\E p \in Procs : SfnChoice(p))
    /\ WF_vars(\E p \in Procs : ApiReturn(p))
    /\ SF_vars(\E p \in Procs, j \in Jobs : GetJob(p, j))

LiveSpec == Init /\ [][SchedNext]_vars /\ SchedFairness

\* ------------------------------------------------------------------- crashes
\* The Lambda service ends a check_nova_status invocation before its handler
\* returns (its timeout, out of memory, the runtime dying): whatever the
\* handler has done so far stays done, nothing more of it is run, and no
\* result is returned.  `seen` remembers whether the merged video had been
\* uploaded.
Crash(p) ==
    /\ NoneReturning
    /\ inv[p].fn = "check_nova_status"
    /\ inv[p].pc \notin {"idle", "done"}
    /\ seen' = IF inv[p].pc = "update_ready"
               THEN [seen EXCEPT ![inv[p].job_id] = @ \cup {"crash after upload"}]
               ELSE seen
    /\ inv' = [inv EXCEPT ![p] = Idle]
    /\ UNCHANGED <<table, objects, nova, executions, uuids, created, merges,
                   finalWritten, sfn, misses>>

\* The handlers invoked by any caller, with invocations that may be cut short.
CrashNext ==
    \/ \E p \in Procs, body \in Bodies : CreateJob(p, body)
    \/ \E j \in Jobs : NovaAdvance(j)
    \/ \E j \in Jobs, name \in OutputNames : NovaWrite(j, name)
    \/ \E p \in Procs, j \in Jobs : CheckStart(p, j)
    \/ \E p \in Procs : CheckPoll(p)
    \/ \E p \in Procs : CheckUpdateFailed(p)
    \/ \E p \in Procs : CheckFind(p)
    \/ \E p \in Procs : CheckMux(p)
    \/ \E p \in Procs : CheckUpdateReady(p)
    \/ \E p \in Procs : Crash(p)
    \/ \E p \in Procs : Return(p)

CrashSpec == Init /\ [][CrashNext]_vars

\* ------------------------------------------------------------------ two jobs
\* Two create_job requests with FullBody have been answered 200: both jobs
\* have their audio, their Nova invocation, their record and their execution.
TwoInit ==
    /\ table = [j \in Jobs |-> JobItem(j, FullBody)]
    /\ objects = {AudioKey(j) : j \in Jobs}
    /\ nova = [j \in Jobs |-> "SUBMITTED"]
    /\ executions = Jobs
    /\ uuids = {}
    /\ created = [j \in Jobs |-> 200]
    /\ merges = [j \in Jobs |-> 0]
    /\ finalWritten = [j \in Jobs |-> {}]
    /\ seen = [j \in Jobs |-> {}]
    /\ sfn = [j \in Jobs |-> "WaitForVideo"]
    /\ misses = [j \in Jobs |-> 0]
    /\ inv = [p \in Procs |-> Idle]

\* The job whose events invocation slot p is given: the slots alternate
\* between the two jobs.
SlotJob(p) == IF p % 2 = 1 THEN "j1" ELSE "j2"

\* The Nova output the two-job runs follow: the video alone.
TwoOutputNames == {<<"o", ".", "m", "p", "4">>}

\* check_nova_status and mux_handler invoked for the slot's job.
TwoCheckStart(p) == CheckStart(p, SlotJob(p))

TwoMuxHandler(p, nova_video_key) == MuxHandler(p, SlotJob(p), nova_video_key)

\* The handlers at work on two jobs side by side.
TwoNext ==
    \/ \E j \in Jobs : NovaAdvance(j)
    \/ \E j \in Jobs, name \in TwoOutputNames : NovaWrite(j, name)
    \/ \E p \in Procs : TwoCheckStart(p)
    \/ \E p \in Procs : CheckPoll(p)
    \/ \E p \in Procs : CheckUpdateFailed(p)
    \/ \E p \in Procs : CheckFind(p)
    \/ \E p \in Procs : CheckMux(p)
    \/ \E p \in Procs : CheckUpdateReady(p)
    \/ \E p \in Procs, k \in RawKeys \cup {NoKey} : TwoMuxHandler(p, k)
    \/ \E p \in Procs : Return(p)

TwoJobSpec == TwoInit /\ [][TwoNext]_vars

\* ---------------------------------------------------------------- claims
\* The finalVideoKey and the status the table holds for a job.
FinalOf(j) == IF j \in DOMAIN table THEN ItemGet(table[j], "finalVideoKey", NoKey) ELSE NoKey
StatusOf(j) == IF j \in DOMAIN table THEN ItemGet(table[j], "status", None) ELSE None

\* A check_nova_status invocation for job j that has just returned.
CheckDone(p, j) ==
    /\ inv[p].pc = "done"
    /\ inv[p].fn = "check_nova_status"
    /\ inv[p].job_id = j

\* C1: in every reachable state a job record holds a finalVideoKey if and
\* only if its persisted status is COMPLETED.
C1_FinalIffCompleted ==
    \A j \in DOMAIN table : (FinalOf(j) # NoKey) <=> (StatusOf(j) = "COMPLETED")

\* C2: for every job, the merge (mux_audio_and_video) is run at most once
\* over the job's whole history, also when reconcile invocations overlap.
C2_MergeAtMostOnce == \A j \in Jobs : merges[j] <= 1

\* C3: at most one finalVideoKey value is ever written to a job's record, and
\* the key a reconcile call returns with READY is the one the record holds.
C3_OneFinalValue ==
    \A j \in Jobs :
      /\ Cardinality(finalWritten[j]) <= 1
      /\ \A p \in Procs :
           (CheckDone(p, j) /\ inv[p].result.status = "READY")
             => /\ FinalOf(j) = inv[p].result.novaVideoKey
                /\ finalWritten[j] = {inv[p].result.novaVideoKey}

\* Two overlapping reconcile calls of one job have both merged and both
\* written; the second has just returned.
C3_Witness ==
    \E p \in Procs, j \in Jobs :
      /\ CheckDone(p, j)
      /\ inv[p].line = 165
      /\ merges[j] >= 2
      /\ \A q \in Procs : inv[q].pc # "update_ready"

\* C4: a reconcile that starts when the job's finalVideoKey is persisted
\* returns READY with that key at once: it runs no merge and writes nothing.
C4_ShortCircuit ==
    [][\A p \in Procs, j \in Jobs :
         ( /\ inv[p].pc = "idle"
           /\ inv'[p].pc # "idle"
           /\ inv'[p].fn = "check_nova_status"
           /\ inv'[p].job_id = j
           /\ FinalOf(j) # NoKey )
         => /\ inv'[p].pc = "done"
            /\ inv'[p].result.status = "READY"
            /\ inv'[p].result.novaVideoKey = FinalOf(j)
            /\ ~inv'[p].merged
            /\ ~inv'[p].wrote
            /\ merges' = merges
            /\ table' = table
            /\ objects' = objects]_vars

\* A reconcile has returned through the short-circuit after the one merge.
C4_Witness ==
    \E p \in Procs, j \in Jobs :
      CheckDone(p, j) /\ inv[p].line = 82 /\ merges[j] = 1

\* The order PENDING < READY < COMPLETED of the job states.
Rank(status) ==
    CASE status = "PENDING" -> 0
      [] status = "READY" -> 1
      [] status = "COMPLETED" -> 2
      [] OTHER -> 3

\* A step of the persisted status that is allowed: none, forward along
\* PENDING -> READY -> COMPLETED, or from PENDING or READY into FAILED.
Forward(old, new) ==
    \/ new = old
    \/ old \in {"PENDING", "READY"} /\ new = "FAILED"
    \/ old \in {"PENDING", "READY"} /\ new \in {"READY", "COMPLETED"}
         /\ Rank(old) < Rank(new)

\* C5: the persisted status of a job only moves forward; a record is never
\* removed, COMPLETED and FAILED never change, READY never returns to PENDING.
C5_StatusMonotonic ==
    [][\A j \in DOMAIN table :
         j \in DOMAIN table' /\ Forward(StatusOf(j), StatusOf(j)')]_vars

\* The record is READY (or FAILED) while another invocation that read it as
\* PENDING is about to write its own update.
C5_Witness ==
    \E p \in Procs :
      /\ inv[p].pc \in {"update_ready", "update_failed"}
      /\ inv[p].read_status = "PENDING"
      /\ StatusOf(inv[p].job_id) \in {"READY", "FAILED"}

\* C6: a write to a job record takes effect only if the persisted status at
\* write time is the status the invocation read; otherwise nothing changes.
C6_ConditionalWrites ==
    [][\A p \in Procs :
         ( /\ ~inv[p].wrote
           /\ inv'[p].wrote
           /\ StatusOf(inv'[p].job_id) # inv[p].read_status )
         => table' = table]_vars

\* C7: finalization looks at finalVideoKey again before the merge and before
\* the commit; when another invocation has set it, this one neither merges nor
\* writes and returns the persisted key.
C7_RecheckBeforeCommit ==
    [][\A p \in Procs :
         ( /\ inv[p].pc \in {"mux_audio_and_video", "update_ready"}
           /\ inv'[p].pc # inv[p].pc
           /\ FinalOf(inv[p].job_id) # NoKey )
         => /\ merges' = merges
            /\ table' = table
            /\ inv'[p].pc = "done"
            /\ ~inv'[p].wrote
            /\ inv'[p].result.status = "READY"
            /\ inv'[p].result.novaVideoKey = FinalOf(inv[p].job_id)]_vars

\* C8: while the Nova invocation of a job has not reported a final status,
\* the record stays PENDING and every reconcile of the job returns PENDING.
C8_StaysPending ==
    \A j \in DOMAIN table :
      nova[j] \in NovaRunning
        => /\ StatusOf(j) = "PENDING"
           /\ \A p \in Procs : CheckDone(p, j) => inv[p].result.status = "PENDING"

\* C9: a reconcile to which Bedrock reports FAILED returns FAILED with a
\* failure reason, and the record is then FAILED and holds a failure reason.
C9_FailedWithReason ==
    \A p \in Procs, j \in Jobs :
      (CheckDone(p, j) /\ inv[p].line = 113)
        => /\ inv[p].result.status = "FAILED"
           /\ DOMAIN inv[p].result \cap {"reason", "error", "failureReason"} # {}
           /\ StatusOf(j) = "FAILED"
           /\ "failureReason" \in DOMAIN table[j]

\* No object under the job's output prefix passes for an .mp4.
NoVideoListed(j) ==
    \A k \in objects :
      StartsWith(k, RawKey(j, <<>>))
        => SubSeq(k, Len(k) - 3, Len(k)) \notin
             {<<".", "m", "p", "4">>, <<".", "M", "P", "4">>}

\* C10: when Bedrock reports COMPLETED and the output listing is empty or
\* holds no .mp4, the reconcile returns PENDING, leaves the record as it is
\* and runs no merge.
C10_NoVideoYet ==
    [][\A p \in Procs :
         ( /\ inv[p].pc = "find_video_file"
           /\ inv'[p].pc # "find_video_file"
           /\ NoVideoListed(inv[p].job_id) )
         => /\ inv'[p].pc = "done"
            /\ inv'[p].result.status = "PENDING"
            /\ ~inv'[p].merged
            /\ ~inv'[p].wrote
            /\ table' = table
            /\ merges' = merges
            /\ objects' = objects]_vars

\* A reconcile has returned PENDING from a COMPLETED invocation whose output
\* prefix holds an object, but no .mp4.
C10_Witness ==
    \E p \in Procs, j \in Jobs :
      /\ CheckDone(p, j)
      /\ inv[p].line = 131
      /\ nova[j] = "COMPLETED"
      /\ NoVideoListed(j)
      /\ \E k \in objects : StartsWith(k, RawKey(j, <<>>))

\* The novaVideoKey the table holds for a job.
RawOf(j) == IF j \in DOMAIN table THEN ItemGet(table[j], "novaVideoKey", NoKey) ELSE NoKey

\* C11: the reconcile that finds the raw video of a COMPLETED invocation, and
\* in which no call raises, ends with the record READY and holding that
\* novaVideoKey, without having merged and without a finalVideoKey in the
\* record; merging is left to a later call.
C11_ReadyBeforeMerge ==
    [][\A p \in Procs :
         ( /\ inv[p].pc \in {"mux_audio_and_video", "update_ready"}
           /\ inv'[p].pc = "done"
           /\ inv'[p].line # 174 )
         => /\ StatusOf(inv[p].job_id)' = "READY"
            /\ RawOf(inv[p].job_id)' = inv[p].video_key
            /\ FinalOf(inv[p].job_id)' = NoKey
            /\ ~inv'[p].merged
            /\ merges' = merges]_vars

\* Invocation p has just returned from function fn, started in this step.
Answers(p, fn) ==
    /\ inv[p].pc = "idle"
    /\ inv'[p].pc = "done"
    /\ inv'[p].fn = fn

\* C12: a create_job answered 200 has uploaded the job's one audio object,
\* started its one Nova invocation and put its one record, PENDING with
\* novaInvocationArn and audioKey, and answers the jobId; a get_job for that
\* job before any check_nova_status has read the record answers PENDING.
C12_CreateThenPending ==
    [][\A p \in Procs :
         /\ (Answers(p, "create_job") /\ inv'[p].result.statusCode = 200)
              => LET j == inv'[p].result.jobId
                 IN  /\ j \notin DOMAIN table
                     /\ table' = PutItem(table, j, table'[j])
                     /\ table'[j].status = "PENDING"
                     /\ table'[j].novaInvocationArn = InvocationArn(j)
                     /\ table'[j].audioKey = AudioKey(j)
                     /\ AudioKey(j) \notin objects
                     /\ objects' = objects \cup {AudioKey(j)}
                     /\ nova[j] = "NotStarted"
                     /\ nova' = [nova EXCEPT ![j] = "SUBMITTED"]
         /\ \A j \in DOMAIN created :
              ( /\ Answers(p, "get_job")
                /\ inv'[p].job_id = j
                /\ created[j] = 200
                /\ "get_item" \notin seen[j] )
              => /\ "status" \in DOMAIN inv'[p].result
                 /\ inv'[p].result.status = "PENDING"]_vars

\* C13: a create_job whose audio generation fails is answered with an error
\* and has stored no record, uploaded nothing, started no Nova invocation and
\* no Step Functions execution.
C13_AudioFailureAborts ==
    [][\A p \in Procs :
         ( /\ Answers(p, "create_job")
           /\ "details" \in DOMAIN inv'[p].result
           /\ inv'[p].result.details = "generate_audio" )
         => /\ inv'[p].result.statusCode = 500
            /\ table' = table
            /\ objects' = objects
            /\ nova' = nova
            /\ executions' = executions]_vars

\* A create_job has just answered 500 because generate_audio raised.
C13_Witness ==
    \E p \in Procs :
      /\ inv[p].pc = "done"
      /\ inv[p].fn = "create_job"
      /\ inv[p].result.statusCode = 500
      /\ inv[p].result.details = "generate_audio"
      /\ inv[p].job_id \notin DOMAIN table
      /\ nova[inv[p].job_id] = "NotStarted"
      /\ executions = {}

\* A request body that is to be rejected: script missing or empty, avatarKey
\* missing, a voiceMode other than polly and cloned, a durationSeconds outside
\* 5..120.
InvalidInput(body) ==
    \/ "script" \notin DOMAIN body
    \/ body.script = ""
    \/ "avatarKey" \notin DOMAIN body
    \/ "voiceMode" \in DOMAIN body /\ body.voiceMode \notin {"polly", "cloned"}
    \/ "durationSeconds" \in DOMAIN body
         /\ (body.durationSeconds < 5 \/ body.durationSeconds > 120)

\* C14: a create_job with such a body is answered 400 and changes nothing:
\* no object uploaded, no Nova invocation, no record, no execution, no job id.
C14_InvalidRejected ==
    [][\A p \in Procs, body \in Bodies :
         (InvalidInput(body) /\ CreateJob(p, body))
         => /\ inv'[p].result.statusCode = 400
            /\ inv'[p].job_id = None
            /\ table' = table
            /\ objects' = objects
            /\ nova' = nova
            /\ executions' = executions
            /\ uuids' = uuids
            /\ created' = created]_vars

\* A create_job has just answered 400 and nothing exists.
C14_Witness ==
    \E p \in Procs :
      /\ inv[p].pc = "done"
      /\ inv[p].fn = "create_job"
      /\ inv[p].result.statusCode = 400
      /\ table = << >>
      /\ objects = {}
      /\ executions = {}

\* C15: a get_job changes neither the table nor the bucket, and for a job
\* with a record it answers the status the table holds at that moment (READY
\* under its front-end name COMPLETED).
C15_GetJobReadsOnly ==
    [][\A p \in Procs :
         Answers(p, "get_job")
         => /\ table' = table
            /\ objects' = objects
            /\ inv'[p].job_id \in DOMAIN table
                 => /\ "status" \in DOMAIN inv'[p].result
                    /\ \/ inv'[p].result.status = StatusOf(inv'[p].job_id)
                       \/ /\ StatusOf(inv'[p].job_id) = "READY"
                          /\ inv'[p].result.status = "COMPLETED"]_vars

\* C16: a record holds a novaVideoKey only after a check_nova_status of the
\* job has been told COMPLETED by Bedrock, and a record that holds one does
\* so ever after.
C16_RawAfterCompleted ==
    [][\A j \in Jobs :
         /\ RawOf(j) # NoKey => "COMPLETED" \in seen[j]
         /\ RawOf(j)' # NoKey => "COMPLETED" \in seen'[j]
         /\ RawOf(j) # NoKey => RawOf(j)' # NoKey]_vars

\* The record holds a novaVideoKey and a later mux_handler or
\* check_nova_status invocation for the job has just ended.
C16_Witness ==
    \E p \in Procs, j \in Jobs :
      /\ RawOf(j) # NoKey
      /\ inv[p].pc = "done"
      /\ inv[p].job_id = j
      /\ \/ inv[p].fn = "mux_handler"
         \/ inv[p].fn = "check_nova_status" /\ inv[p].line = 82

\* C17: novaVideoKey is written at most once per job: the update of lines
\* 148-160 is only ever applied to a record that holds no novaVideoKey.
C17_RawWrittenOnce ==
    [][\A p \in Procs :
         ( /\ ~inv[p].wrote
           /\ inv'[p].wrote
           /\ inv'[p].line = 165 )
         => RawOf(inv'[p].job_id) = NoKey]_vars

\* C18: once a record exists it stays, and its novaInvocationArn and audioKey
\* are neither changed nor removed by any step.
C18_HandleAndAudioFixed ==
    [][\A j \in DOMAIN table :
         /\ j \in DOMAIN table'
         /\ \A a \in {"novaInvocationArn", "audioKey"} \cap DOMAIN table[j] :
              /\ a \in DOMAIN table'[j]
              /\ table'[j][a] = table[j][a]]_vars

\* A record that update_item has made READY still holds what create_job put.
C18_Witness ==
    \E j \in DOMAIN table :
      /\ StatusOf(j) = "READY"
      /\ FinalOf(j) # NoKey
      /\ table[j].novaInvocationArn = InvocationArn(j)
      /\ table[j].audioKey = AudioKey(j)

\* C19: a check_nova_status whose get_async_invoke raises, whatever the
\* exception, returns PENDING and leaves the record as it is.
C19_PollFailureIsPending ==
    [][\A p \in Procs :
         ( /\ inv[p].pc = "get_async_invoke"
           /\ inv'[p].pc = "done"
           /\ inv'[p].line \in {95, 174} )
         => /\ inv'[p].result.status = "PENDING"
            /\ table' = table]_vars

\* C20: a check_nova_status that ends in the handler's catch-all (line 174)
\* while the record is PENDING or READY leaves the record FAILED with a
\* failureReason.
C20_InternalErrorPersisted ==
    [][\A p \in Procs :
         ( /\ inv[p].fn = "check_nova_status"
           /\ inv[p].pc # "done"
           /\ inv'[p].pc = "done"
           /\ inv'[p].line = 174
           /\ StatusOf(inv[p].job_id) \in {"PENDING", "READY"} )
         => /\ StatusOf(inv[p].job_id)' = "FAILED"
            /\ "failureReason" \in DOMAIN table'[inv[p].job_id]]_vars

\* C21: a check_nova_status whose merge raises (download, ffmpeg or upload)
\* leaves the record FAILED and without finalVideoKey, and a record that is
\* FAILED stays FAILED.
C21_MergeFailureTerminal ==
    [][/\ \A p \in Procs :
            ( /\ inv[p].pc = "mux_audio_and_video"
              /\ inv'[p].pc = "done"
              /\ inv'[p].line = 174 )
            => /\ StatusOf(inv[p].job_id)' = "FAILED"
               /\ FinalOf(inv[p].job_id)' = NoKey
       /\ \A j \in Jobs : StatusOf(j) = "FAILED" => StatusOf(j)' = "FAILED"]_vars

\* C22: every FAILED a check_nova_status returns carries a reason, and every
\* FAILED record holds a failureReason.
C22_FailedHasReason ==
    /\ \A p \in Procs :
         ( /\ inv[p].pc = "done"
           /\ inv[p].fn = "check_nova_status"
           /\ inv[p].result.status = "FAILED" )
         => DOMAIN inv[p].result \cap {"reason", "error", "failureReason"} # {}
    /\ \A j \in DOMAIN table :
         StatusOf(j) = "FAILED" => "failureReason" \in DOMAIN table[j]

\* C23: a check_nova_status for a job id the table does not hold returns
\* FAILED with reason JobNotFound at once: it does not query Bedrock, and the
\* table is as before, without an item for that id.
C23_JobNotFound ==
    [][\A p \in Procs, j \in Jobs :
         ( /\ inv[p].pc = "idle"
           /\ inv'[p].pc # "idle"
           /\ inv'[p].fn = "check_nova_status"
           /\ inv'[p].job_id = j
           /\ j \notin DOMAIN table )
         => /\ inv'[p].pc = "done"
            /\ inv'[p].result = [jobId |-> j, status |-> "FAILED", reason |-> "JobNotFound"]
            /\ ~inv'[p].wrote
            /\ table' = table
            /\ "COMPLETED" \in seen'[j] <=> "COMPLETED" \in seen[j]]_vars

\* A check_nova_status for a job id without an item has just returned.
C23_Witness ==
    \E p \in Procs, j \in Jobs :
      /\ CheckDone(p, j)
      /\ inv[p].line = 68
      /\ j \notin DOMAIN table

\* C24: the number of check_nova_status calls that answer PENDING from a
\* listing that holds objects but no .mp4 is bounded: once MaxMisses such
\* calls have been made for a job, the next one answers FAILED with a reason
\* and leaves the record FAILED.
C24_DiscoveryBounded ==
    [][\A p \in Procs :
         ( /\ inv[p].pc = "find_video_file"
           /\ inv'[p].pc # "find_video_file"
           /\ NoVideoListed(inv[p].job_id)
           /\ \E k \in objects : StartsWith(k, RawKey(inv[p].job_id, << >>))
           /\ misses[inv[p].job_id] = MaxMisses )
         => /\ inv'[p].pc = "done"
            /\ inv'[p].result.status = "FAILED"
            /\ DOMAIN inv'[p].result \cap {"reason", "error", "failureReason"} # {}
            /\ StatusOf(inv[p].job_id)' = "FAILED"]_vars

\* Invocation p starts a check_nova_status for job j in this step.
Starts(p, j) ==
    /\ inv[p].pc = "idle"
    /\ inv'[p].pc # "idle"
    /\ inv'[p].fn = "check_nova_status"
    /\ inv'[p].job_id = j

\* C25: an execution invokes check_nova_status only from its task state,
\* which it enters only from the wait, one invocation at a time; a PENDING
\* result sends it back to the wait, READY ends it in JobCompleted, any other
\* result in JobFailed; an execution that has ended stays as it is and
\* invokes nothing.
C25_SchedulerLoop ==
    [][\A j \in Jobs :
         /\ \A p \in Procs :
              Starts(p, j)
              => /\ sfn[j] = "CheckNovaStatus"
                 /\ \A q \in Procs : ~(inv[q].fn = "check_nova_status" /\ inv[q].job_id = j)
         /\ (sfn'[j] = "CheckNovaStatus" /\ sfn[j] # "CheckNovaStatus")
              => sfn[j] = "WaitForVideo"
         /\ \A p \in Procs :
              ( /\ CheckDone(p, j)
                /\ inv'[p].pc = "idle"
                /\ sfn[j] = "CheckNovaStatus" )
              => sfn'[j] = ( CASE inv[p].result.status = "PENDING" -> "WaitForVideo"
                               [] inv[p].result.status = "READY" -> "JobCompleted"
                               [] OTHER -> "JobFailed" )
         /\ sfn[j] \in SfnEnded => sfn'[j] = sfn[j]]_vars

\* An execution has ended in JobCompleted after a cycle that answered PENDING
\* sent it round the loop.
C25_Witness ==
    \E j \in Jobs :
      /\ sfn[j] = "JobCompleted"
      /\ misses[j] >= 1
      /\ StatusOf(j) = "READY"

\* C26: a job whose execution has timed out and whose record is not READY
\* (or COMPLETED) has a FAILED record with failureReason Timeout.
C26_TimeoutForcesFailed ==
    \A j \in DOMAIN table :
      (sfn[j] = "TIMED_OUT" /\ StatusOf(j) \notin {"READY", "COMPLETED"})
        => /\ StatusOf(j) = "FAILED"
           /\ ItemGet(table[j], "failureReason", None) = "Timeout"

\* C28: a job whose execution has been started has its record, and no
\* check_nova_status the execution invokes answers JobNotFound.
C28_RecordBeforeSchedule ==
    \A j \in Jobs :
      /\ sfn[j] # "NotStarted" => j \in DOMAIN table
      /\ \A p \in Procs : CheckDone(p, j) => inv[p].line # 68

\* The execution of a job has invoked check_nova_status and has its result.
C28_Witness ==
    \E p \in Procs, j \in Jobs :
      /\ CheckDone(p, j)
      /\ sfn[j] = "CheckNovaStatus"
      /\ j \in DOMAIN table

\* C27: finalVideoKey and the final status COMPLETED are committed in one
\* step: finalVideoKey appears in a record only in a step that leaves the
\* record COMPLETED, and a record becomes COMPLETED only in a step that
\* leaves it with a finalVideoKey.
C27_AtomicFinalCommit ==
    [][\A j \in Jobs :
         /\ (FinalOf(j) = NoKey /\ FinalOf(j)' # NoKey) => StatusOf(j)' = "COMPLETED"
         /\ (StatusOf(j) # "COMPLETED" /\ StatusOf(j)' = "COMPLETED")
              => FinalOf(j)' # NoKey]_vars

\* The final key an uninterrupted check_nova_status commits for a job.
UninterruptedFinal(j) == <<"renders/final/", j, ".", "m", "p", "4">>

\* C29: an invocation that is cut short leaves the record as it was; a
\* check_nova_status that starts after a cycle was cut short between upload
\* and update, with no finalVideoKey in the record, goes through the whole
\* cycle again; and every check_nova_status that then answers READY leaves
\* the record READY with the finalVideoKey an uninterrupted cycle commits,
\* the object of that key being in the bucket.
C29_CrashSafeRerun ==
    [][/\ \A p \in Procs :
            (inv[p].pc \notin {"idle", "done"} /\ inv'[p].pc = "idle")
            => table' = table
       /\ \A p \in Procs, j \in DOMAIN table :
            ( /\ Starts(p, j)
              /\ "crash after upload" \in seen[j]
              /\ FinalOf(j) = NoKey )
            => inv'[p].pc = "get_async_invoke"
       /\ \A p \in Procs, j \in Jobs :
            ( /\ inv'[p].pc = "done"
              /\ inv'[p].fn = "check_nova_status"
              /\ inv'[p].job_id = j
              /\ inv'[p].result.status = "READY" )
            => /\ StatusOf(j)' = "READY"
               /\ FinalOf(j)' = UninterruptedFinal(j)
               /\ inv'[p].result.novaVideoKey = UninterruptedFinal(j)
               /\ UninterruptedFinal(j) \in objects']_vars

\* A cycle was cut short after its upload, and a later check_nova_status has
\* merged again, committed and answered READY.
C29_Witness ==
    \E p \in Procs, j \in Jobs :
      /\ CheckDone(p, j)
      /\ inv[p].line = 165
      /\ "crash after upload" \in seen[j]
      /\ merges[j] = 2
      /\ finalWritten[j] = {UninterruptedFinal(j)}
      /\ \A q \in Procs \ {p} : inv[q].pc = "idle"

\* C30: with two jobs at work, a record changes only in a step in which an
\* invocation for that job writes; a check_nova_status works with the handle,
\* the audio key and the status of its own job's record and uploads under
\* its own job's final key; and the final keys written for the two jobs
\* differ.
C30_JobsIndependent ==
    [][/\ \A j \in Jobs :
            table'[j] # table[j]
            => \E p \in Procs :
                 inv'[p].job_id = j /\ inv'[p].wrote /\ ~inv[p].wrote
       /\ \A p \in Procs, j \in Jobs :
            (Starts(p, j) /\ inv'[p].pc = "get_async_invoke")
            => /\ inv'[p].invocation_arn = table[j].novaInvocationArn
               /\ ArnJob(inv'[p].invocation_arn) = j
               /\ inv'[p].audio_key = table[j].audioKey
               /\ inv'[p].read_status = table[j].status
       /\ \A p \in Procs :
            (inv[p].pc = "mux_audio_and_video" /\ inv'[p].pc = "update_ready")
            => /\ objects' \ objects \subseteq {inv'[p].final_key}
               /\ inv'[p].final_key[2] = inv[p].job_id
               /\ inv[p].video_key[2] = inv[p].job_id
       /\ \A a \in Jobs : \A b \in Jobs \ {a} :
            /\ finalWritten'[a] \cap finalWritten'[b] = {}
            /\ FinalOf(a)' # NoKey => FinalOf(a)' # FinalOf(b)']_vars

\* Cycles of the two jobs run side by side: each has merged and is about to
\* commit.
C30_Witness ==
    \E p \in Procs, q \in Procs :
      /\ inv[p].pc = "update_ready"
      /\ inv[q].pc = "update_ready"
      /\ inv[p].job_id # inv[q].job_id
      /\ inv[p].final_key # inv[q].final_key

C32_MuxCompletes ==
    [][\A p \in Procs, j \in Jobs :
         ( /\ Answers(p, "mux_handler")
           /\ inv'[p].job_id = j
           /\ j \in DOMAIN table
           /\ inv'[p].merged
           /\ inv'[p].line \notin {134, 137} )
         => LET result == inv'[p].result
            IN  /\ StatusOf(j)' = "COMPLETED"
                /\ FinalOf(j)' # NoKey
                /\ FinalOf(j)' \in objects'
                /\ "status" \in DOMAIN result
                /\ result.status = "COMPLETED"
                /\ result.jobId = j
                /\ result.finalVideoKey = FinalOf(j)']_vars

\* The attributes of a record that hold the key of an object.
KeyAttrs == {"audioKey", "novaVideoKey", "finalVideoKey"}

\* C33: a step that writes an object key (audioKey, novaVideoKey or
\* finalVideoKey) into a record writes the key of an object the bucket holds
\* once the step has been taken; and the keys check_nova_status writes are
\* keys of objects the bucket held before the step of its update_item.
C33_ObjectBeforeKey ==
    [][\A j \in Jobs, attr \in KeyAttrs :
         ( /\ j \in DOMAIN table'
           /\ attr \in DOMAIN table'[j]
           /\ \/ j \notin DOMAIN table
              \/ ItemGet(table[j], attr, NoKey) # table'[j][attr] )
         => /\ table'[j][attr] \in objects'
            /\ (\E p \in Procs : inv[p].pc = "update_ready" /\ inv[p].job_id = j)
                 => table'[j][attr] \in objects]_vars

\* A check_nova_status has just committed READY: the record holds all three
\* keys, each the key of an object in the bucket.
C33_Witness ==
    \E p \in Procs, j \in Jobs :
      /\ CheckDone(p, j)
      /\ inv[p].line = 165
      /\ KeyAttrs \subseteq DOMAIN table[j]
      /\ {table[j][attr] : attr \in KeyAttrs} \subseteq objects
      /\ table[j].finalVideoKey # table[j].novaVideoKey

\* C34: a check_nova_status for a job with a record, returning while no
\* other invocation is at work, returns the status the record then holds.
C34_ReturnedIsPersisted ==
    \A p \in Procs, j \in Jobs :
      ( /\ CheckDone(p, j)
        /\ j \in DOMAIN table
        /\ \A q \in Procs \ {p} : inv[q].pc = "idle" )
      => inv[p].result.status = StatusOf(j)

\* C35: a job whose create_job was answered with an error has no record, and
\* every job with a record has a Step Functions execution started for it.
C35_ErrorLeavesNoRecord ==
    /\ \A j \in DOMAIN created : created[j] # 200 => j \notin DOMAIN table
    /\ \A j \in DOMAIN table : j \in executions

\* The bucket holds a raw video (.mp4) under the job's output prefix.
VideoVisible(j) == \E k \in objects : IsMp4(k) /\ StartsWith(k, RawKey(j, << >>))

\* A check_nova_status for job j has just returned from one of `lines`.
CheckReturnedAt(j, lines) == \E p \in Procs : CheckDone(p, j) /\ inv[p].line \in lines

\* A get_job for job j has just reported COMPLETED.
ReportsCompleted(j) ==
    \E p \in Procs :
      /\ inv[p].pc = "done"
      /\ inv[p].fn = "get_job"
      /\ inv[p].job_id = j
      /\ "status" \in DOMAIN inv[p].result
      /\ inv[p].result.status = "COMPLETED"

\* C36: for a job create_job has answered 200, if Bedrock comes to report
\* COMPLETED, a raw video comes to be and stay listed, no call of a
\* check_nova_status raises for good (the merge included), and the state
\* machine keeps running its loop, then the record comes to hold a
\* finalVideoKey and a get_job comes to report COMPLETED.
C36_EventuallyCompleted ==
    \A j \in Jobs :
      ( /\ <>(j \in DOMAIN created /\ created[j] = 200)
        /\ <>[](nova[j] = "COMPLETED")
        /\ <>[]VideoVisible(j)
        /\ []~CheckReturnedAt(j, {75, 121, 174})
        /\ <>[]~CheckReturnedAt(j, {95})
        /\ [](sfn[j] # "TIMED_OUT") )
      => /\ <>(FinalOf(j) # NoKey)
         /\ <>ReportsCompleted(j)

\* C37: a get_job for a job with a record reports a status, never READY: it
\* reports COMPLETED for a record that holds READY and the record's own
\* status otherwise, so that it reports one of PENDING, COMPLETED, FAILED.
C37_ReadyNeverExposed ==
    [][\A p \in Procs, j \in Jobs :
         ( /\ Answers(p, "get_job")
           /\ inv'[p].job_id = j
           /\ j \in DOMAIN table )
         => LET result == inv'[p].result
            IN  /\ "status" \in DOMAIN result
                /\ result.status # "READY"
                /\ result.status = (IF StatusOf(j) = "READY" THEN "COMPLETED"
                                    ELSE StatusOf(j))
                /\ result.status \in {"PENDING", "COMPLETED", "FAILED"}]_vars

====
